---- MODULE Spec2Model ----
(***************************************************************************)
(* A model of k8s2ai (src/k8s2ai.py): the streaming subprocess coordinator *)
(* run_k8sgpt, the interactive-completion monitor execute_with_kubectl_ai  *)
(* and the control flow of main.                                           *)
(*                                                                         *)
(* Families of specifications share the variables of this module:          *)
(*   SpecRun     one call of run_k8sgpt (main flow, children, drain threads)*)
(*   SpecParse   the end of such a call: the extraction of the JSON report  *)
(*   SpecExec    one call of execute_with_kubectl_ai, with a clock          *)
(*   SpecMain    the control flow of main around those two calls            *)
(*   SpecExtract extract_solutions and group_solutions_by_error             *)
(* Every specification keeps the variables of the other families at their   *)
(* idle values.                                                             *)
(***************************************************************************)
EXTENDS Integers, Sequences, FiniteSets, TLC

VARIABLES
  \* ---- run_k8sgpt ----------------------------------------------------
  k8sgpt_args,      \* the argument list handed to run_k8sgpt
  need_json,        \* the need_json parameter
  installed,        \* whether the k8sgpt executable can be launched
  rpc,              \* position of the main flow inside run_k8sgpt
  has_output_flag,  \* local of run_k8sgpt (lines 77-82)
  cmds,             \* the command lines launched so far, in order
  process,          \* closure variable `process`: 0 none, 1 first, 2 retry
  chunks_ref,       \* closure variables stdout_chunks/stderr_chunks: which lists
  returncode,       \* local `returncode`
  rk_result,        \* the CompletedProcess built at 167 / 225 / 230
  parsed_json,      \* local `parsed_json`
  cstate,           \* child a: "none" | "running" | "exited"
  crc,              \* child a: exit code
  emitted,          \* <<a, s>>: everything read so far from child a's stream s
  tpc,              \* drain thread t: "idle" | "read" | "got" | "done"
  ttarget,          \* drain thread t: the child whose pipe its read() is on
  json_started,     \* drain thread t: local json_started of read_stdout
  bufs,             \* <<a, s>>: the list object created for attempt a, stream s
  echoed,           \* drain thread t: everything it wrote to the terminal
  handled           \* drain thread t: concatenation of the chunks it processed

rkIn == <<k8sgpt_args, need_json, installed>>
rkFlow == <<rpc, has_output_flag, cmds, process, chunks_ref, returncode,
            rk_result, parsed_json>>
rkChild == <<cstate, crc>>
rkThread == <<tpc, ttarget, json_started>>
rkData == <<emitted, bufs, echoed, handled>>
runVars == <<rkIn, rkFlow, rkChild, rkThread, rkData>>

VARIABLES
  \* ---- execute_with_kubectl_ai ---------------------------------------
  xinstalled,       \* whether kubectl can be launched
  epc,              \* position of the main flow inside execute_with_kubectl_ai
  now,              \* the clock, in seconds (time.time())
  start_time,       \* local start_time
  last_output_time, \* nonlocal last_output_time
  has_output,       \* nonlocal has_output
  polled,           \* the monitor loop ran since the clock last advanced
  wait_start,       \* when the timed wait in progress (join, wait) began
  xstate,           \* the executor: "none" | "running" | "exited"
  xrc,              \* the executor's exit status (negative: ended by a signal)
  term_reason,      \* why process.terminate() was called: "none", "idle", "ceiling"
  killed,           \* process.kill() ended the executor
  xpending,         \* complete lines written to stream s and not yet read
  xpartial,         \* stream s holds bytes that no newline has followed yet
  xtpc,             \* read_stream thread of stream s: "idle", "read", "stamp", "done"
  last_write,       \* when the executor last wrote a byte (-1: never)
  ret               \* the return value: "none" | "True" | "False"

exIn == <<xinstalled>>
exFlow == <<epc, start_time, polled, wait_start, term_reason, killed, ret>>
exShared == <<last_output_time, has_output>>
exChild == <<xstate, xrc, xpending, xpartial, last_write>>
execVars == <<exIn, exFlow, exShared, exChild, xtpc, now>>

VARIABLES
  \* ---- main ----------------------------------------------------------
  mpc,              \* position of main
  auto_given,       \* --auto-select was given (args.auto_select is not None)
  auto_select,      \* its value N (0 when not given)
  has_explain,      \* "--explain" in k8sgpt_args
  diag_rc,          \* result.returncode of run_k8sgpt
  diag_data,        \* data of main: NoReport, EmptyObject or a report
  groups,           \* grouped: the number of entries of each group, in order
  sel_group,        \* the group whose entries are displayed (0: none yet)
  selected,         \* the selected entry, a record: NotSelected, an Entry, Custom
  inputs_left,      \* operator inputs that main may still consume
  custom_lines,     \* custom_solution_lines of prompt_custom_solution
  n_error_prompts,  \* how often the group prompt was issued
  n_solution_prompts, \* how often the solution prompt was issued
  exec_launched,    \* execute_with_kubectl_ai was called
  exit_code,        \* the exit status of the run (-1: still running)
  last_input,       \* what the last input() call returned or raised
  message,          \* the last message of main about the outcome of the run
  success,          \* what execute_with_kubectl_ai returned ("none": no call)
  \* ---- extract_solutions and group_solutions_by_error ----------------
  spc,              \* position: "off", "extract", "group", "done"
  data,             \* data["results"]: the Findings of the report, in order
  next_result,      \* the index of the result the loop of line 280 takes next
  solutions,        \* the list extract_solutions builds
  next_sol,         \* the index of the entry the loop of line 348 takes next
  grouped           \* the dict of group_solutions_by_error, in insertion order

appIn == <<auto_given, auto_select, has_explain>>
appFlow == <<mpc, diag_rc, diag_data, groups, sel_group, selected, inputs_left,
             custom_lines, n_error_prompts, n_solution_prompts, exec_launched,
             exit_code, last_input, message, success>>
solVars == <<spc, data, next_result, solutions, next_sol, grouped>>
appVars == <<appIn, appFlow, solVars>>

vars == <<runVars, execVars, appVars>>

-----------------------------------------------------------------------------
(* Bounds of the model *)

\* characters read from the pipes of the children of one call of run_k8sgpt,
\* all streams together, at most
MaxChars == 2

-----------------------------------------------------------------------------
(* Text: a string is a sequence of one-character strings *)

\* "a" stands for any character that is neither a brace nor white space
Chars == {"a", "{", "}"}
ErrChars == {"e"}
WhiteSpace == {" ", "\n"}

RECURSIVE Flatten(_)
\* ''.join(chunks)
Flatten(chunks) ==
  IF chunks = <<>> THEN <<>> ELSE Head(chunks) \o Flatten(Tail(chunks))

\* '{' in chunk
HasBrace(chunk) == \E i \in 1..Len(chunk) : chunk[i] = "{"

\* chunk.find('{'): the 0-based index of the first '{', or -1
find(chunk) ==
  IF HasBrace(chunk)
  THEN (CHOOSE i \in 1..Len(chunk) :
          /\ chunk[i] = "{"
          /\ \A j \in 1..(i - 1) : chunk[j] # "{") - 1
  ELSE -1

\* the part of a text that precedes its first '{' (all of it if there is none)
BeforeBrace(text) ==
  IF HasBrace(text) THEN SubSeq(text, 1, find(text)) ELSE text

RECURSIVE LStrip(_)
LStrip(s) ==
  IF s # <<>> /\ Head(s) \in WhiteSpace THEN LStrip(Tail(s)) ELSE s

RECURSIVE RStrip(_)
RStrip(s) ==
  IF s # <<>> /\ s[Len(s)] \in WhiteSpace
  THEN RStrip(SubSeq(s, 1, Len(s) - 1)) ELSE s

\* str.strip()
Strip(s) == LStrip(RStrip(s))

\* str.startswith("{")
StartsWithBrace(s) == s # <<>> /\ s[1] = "{"

RECURSIVE SplitLines(_)
\* str.split('\n'): the list of lines (always at least one)
SplitLines(s) ==
  IF \E i \in 1..Len(s) : s[i] = "\n"
  THEN LET i == CHOOSE k \in 1..Len(s) :
                  s[k] = "\n" /\ \A j \in 1..(k - 1) : s[j] # "\n"
       IN <<SubSeq(s, 1, i - 1)>> \o SplitLines(SubSeq(s, i + 1, Len(s)))
  ELSE <<s>>

RECURSIVE JoinLines(_)
\* '\n'.join(lines)
JoinLines(lines) ==
  IF lines = <<>> THEN <<>>
  ELSE IF Len(lines) = 1 THEN lines[1]
  ELSE lines[1] \o <<"\n">> \o JoinLines(Tail(lines))

RECURSIVE DropWhiteSpace(_)
DropWhiteSpace(s) ==
  IF s = <<>> THEN <<>>
  ELSE IF Head(s) \in WhiteSpace THEN DropWhiteSpace(Tail(s))
  ELSE <<Head(s)>> \o DropWhiteSpace(Tail(s))

\* json.loads(text) succeeds. Over the characters of the model the only JSON
\* value is the empty object, with white space allowed around its tokens.
JsonParses(text) == DropWhiteSpace(text) = <<"{", "}">>

\* json.loads(text): the parsed document, or "None" on JSONDecodeError
\* (the except clauses of lines 248 and 263 leave parsed_json at None)
json_loads(text) == IF JsonParses(text) THEN "EmptyObject" ELSE "None"

\* an extraction that only tries the whole text
ExtractJsonWholeOnly(stdout) == json_loads(Strip(stdout))

\* lines 242-264: the extraction of the JSON report from the captured stdout
ExtractJson(stdout) ==
  LET output == Strip(stdout) IN
  IF StartsWithBrace(output) THEN json_loads(output)
  ELSE LET lines == SplitLines(output)
           starts == {i \in 1..Len(lines) : StartsWithBrace(Strip(lines[i]))}
       IN IF starts = {} THEN "None"
          ELSE LET json_start == CHOOSE i \in starts : \A j \in starts : i <= j
               IN json_loads(JoinLines(SubSeq(lines, json_start, Len(lines))))

-----------------------------------------------------------------------------
(* run_k8sgpt: inputs *)

\* the argument lists run_k8sgpt is called with
ArgLists ==
  { <<"analyze">>,
    <<"analyze", "--output", "json">>,
    <<"analyze", "--explain">>,
    <<"analyze", "--explain", "--output", "json">>,
    <<"analyze", "--explain", "-o", "json">> }

\* main, line 635: has_explain = "--explain" in k8sgpt_args
HasExplain(args) == \E i \in 1..Len(args) : args[i] = "--explain"

\* lines 79-82: an element of args is "--output" or "-o"
OutputFlagPresent(args) == \E i \in 1..Len(args) : args[i] \in {"--output", "-o"}

\* lines 74-85: the command of the first launch
FirstCmd(args, nj) ==
  <<"k8sgpt">> \o args
     \o (IF nj /\ ~OutputFlagPresent(args) THEN <<"--output", "json">> ELSE <<>>)

\* line 174: the command of the retry
RetryCmd(args) == <<"k8sgpt">> \o args

\* exit codes of a diagnostic child: 1 stands for every non-zero code
ExitCodes == {0, 1}

Attempts == {1, 2}
Streams == {"out", "err"}
Pipes == Attempts \X Streams

\* the drain threads: read_stdout, read_stderr, read_stdout_retry, read_stderr_retry
Threads == {"o1", "e1", "o2", "e2"}
StreamOf(t) == IF t \in {"o1", "o2"} THEN "out" ELSE "err"
AttemptOf(t) == IF t \in {"o1", "e1"} THEN 1 ELSE 2
OutThread(a) == IF a = 1 THEN "o1" ELSE "o2"
ErrThread(a) == IF a = 1 THEN "e1" ELSE "e2"

\* the non-empty texts of at most n characters over alphabet S
Texts(S, n) == UNION {[1..k -> S] : k \in 1..n}

-----------------------------------------------------------------------------
(* run_k8sgpt: the drain threads *)

\* lines 115-129: what read_stdout writes to sys.stdout for one chunk
StdoutEcho(chunk, started) ==
  IF started THEN <<>>
  ELSE IF HasBrace(chunk)
       THEN (IF find(chunk) > 0 THEN SubSeq(chunk, 1, find(chunk)) ELSE <<>>)
       ELSE chunk

\* a read_stdout that never sets json_started
StdoutStartedNever(chunk, started) == started

\* lines 115-125: json_started after one chunk
StdoutStarted(chunk, started) == started \/ HasBrace(chunk)

\* line 194: what read_stdout_retry writes to sys.stdout for one chunk
RetryStdoutEcho(chunk, started) == chunk

\* lines 143 and 206: what read_stderr / read_stderr_retry write to sys.stderr
StderrEcho(chunk) == chunk

\* what thread t writes to the terminal for one chunk
EchoOf(t, chunk, started) ==
  CASE t = "o1" -> StdoutEcho(chunk, started)
    [] t = "o2" -> RetryStdoutEcho(chunk, started)
    [] OTHER -> StderrEcho(chunk)

CharsOf(s) == IF s = "out" THEN Chars ELSE ErrChars


\* run_k8sgpt is between its first launch and its return; the model follows
\* the children and the drain threads for as long
InCall == rpc \notin {"off", "start", "returned", "sysexit"}

\* the number of characters read so far from the pipes of both children
ReadSoFar ==
  Len(emitted[<<1, "out">>]) + Len(emitted[<<1, "err">>])
    + Len(emitted[<<2, "out">>]) + Len(emitted[<<2, "err">>])

\* lines 109-129 (138-144, 190-195, 202-207): one round of a drain loop.
\* process.<stream>.read(1024), which was called on the pipe of the child
\* that `process` named then, returns a chunk: any non-empty text the child
\* writes. The chunk is appended to the list that the closure variable
\* (stdout_chunks or stderr_chunks) names now, it is echoed, and the next
\* read is called on the pipe of the child that `process` names now.
ThreadChunk(t) ==
  /\ InCall
  /\ tpc[t] = "read"
  /\ ReadSoFar < MaxChars
  /\ \E chunk \in Texts(CharsOf(StreamOf(t)), MaxChars - ReadSoFar) :
       /\ emitted' = [emitted EXCEPT ![<<ttarget[t], StreamOf(t)>>] = @ \o chunk]
       /\ bufs' = [bufs EXCEPT ![<<chunks_ref, StreamOf(t)>>] = Append(@, chunk)]
       /\ echoed' = [echoed EXCEPT ![t] = @ \o EchoOf(t, chunk, json_started[t])]
       /\ json_started' = [json_started EXCEPT ![t] =
                             IF t = "o1" THEN StdoutStarted(chunk, @) ELSE @]
       /\ handled' = [handled EXCEPT ![t] = @ \o chunk]
  /\ ttarget' = [ttarget EXCEPT ![t] = process]
  /\ UNCHANGED <<rkIn, rkFlow, rkChild, tpc, execVars, appVars>>

\* lines 110-111 (and 139, 191, 203): read() returns '' at end of file and
\* the thread ends. End of file needs every write end of the pipe closed:
\* that happens when the child exits, later when a descendant of the child
\* that inherited the pipe lets go of it, or never; until then the thread
\* stays blocked in read().
ThreadEof(t) ==
  /\ InCall
  /\ tpc[t] = "read"
  /\ cstate[ttarget[t]] = "exited"
  /\ tpc' = [tpc EXCEPT ![t] = "done"]
  /\ UNCHANGED <<rkIn, rkFlow, rkChild, ttarget, json_started, rkData,
                 execVars, appVars>>

-----------------------------------------------------------------------------
(* run_k8sgpt: the diagnostic children *)

\* a child exits, with any exit code
ChildExit(a) ==
  /\ InCall
  /\ cstate[a] = "running"
  /\ \E rc \in ExitCodes : crc' = [crc EXCEPT ![a] = rc]
  /\ cstate' = [cstate EXCEPT ![a] = "exited"]
  /\ UNCHANGED <<rkIn, rkFlow, rkThread, rkData, execVars, appVars>>

-----------------------------------------------------------------------------
(* run_k8sgpt: the main flow *)

\* a retry condition that forgets whether the flag was synthesized
ShouldRetryAnyFailure(rc, flag) == rc # 0

\* line 172: the retry condition
ShouldRetry(rc, flag) == rc # 0 /\ ~flag

\* a join() without timeout
JoinNeverTimesOut(t) == FALSE

\* lines 159-160, 219-220: join(timeout=5) gives up on a thread still running
JoinTimesOut(t) == tpc[t] # "done"

\* lines 74-90, 268-270: the executable is missing; Popen (or subprocess.run)
\* raises FileNotFoundError and run_k8sgpt ends the run with sys.exit(1)
RkLaunchMissing ==
  /\ rpc = "start"
  /\ ~installed
  /\ has_output_flag' = (need_json /\ OutputFlagPresent(k8sgpt_args))
  /\ rpc' = "sysexit"
  /\ UNCHANGED <<rkIn, cmds, process, chunks_ref, returncode, rk_result,
                 parsed_json, rkChild, rkThread, rkData, execVars, appVars>>

\* lines 74-153: structured-output mode; the first launch, its two capture
\* lists and its two drain threads
RkLaunchJson ==
  /\ rpc = "start"
  /\ installed
  /\ need_json
  /\ has_output_flag' = OutputFlagPresent(k8sgpt_args)
  /\ cmds' = <<FirstCmd(k8sgpt_args, need_json)>>
  /\ process' = 1
  /\ chunks_ref' = 1
  /\ cstate' = [cstate EXCEPT ![1] = "running"]
  /\ tpc' = [t \in Threads |-> IF AttemptOf(t) = 1 THEN "read" ELSE "idle"]
  /\ ttarget' = [t \in Threads |-> IF AttemptOf(t) = 1 THEN 1 ELSE 0]
  /\ rpc' = "wait"
  /\ UNCHANGED <<rkIn, returncode, rk_result, parsed_json, crc, json_started,
                 rkData, execVars, appVars>>

\* lines 74-85, 229-234: pass-through mode; subprocess.run launches the child
\* on the inherited streams
RkLaunchPlain ==
  /\ rpc = "start"
  /\ installed
  /\ ~need_json
  /\ has_output_flag' = FALSE
  /\ cmds' = <<FirstCmd(k8sgpt_args, need_json)>>
  /\ process' = 1
  /\ cstate' = [cstate EXCEPT ![1] = "running"]
  /\ rpc' = "run"
  /\ UNCHANGED <<rkIn, chunks_ref, returncode, rk_result, parsed_json, crc,
                 rkThread, rkData, execVars, appVars>>

\* lines 230-237: subprocess.run returns when the child has exited; nothing
\* was captured
RkRunDone ==
  /\ rpc = "run"
  /\ cstate[1] = "exited"
  /\ returncode' = crc[1]
  /\ rk_result' = [cmd |-> cmds[1], returncode |-> crc[1],
                   stdout |-> <<>>, stderr |-> <<>>]
  /\ rpc' = "parse"
  /\ UNCHANGED <<rkIn, has_output_flag, cmds, process, chunks_ref, parsed_json,
                 rkChild, rkThread, rkData, execVars, appVars>>

\* lines 156 and 217: process.wait(), which has no timeout, returns when the
\* child has exited
RkWait ==
  /\ rpc = "wait"
  /\ cstate[process] = "exited"
  /\ returncode' = crc[process]
  /\ rpc' = "join_out"
  /\ UNCHANGED <<rkIn, has_output_flag, cmds, process, chunks_ref, rk_result,
                 parsed_json, rkChild, rkThread, rkData, execVars, appVars>>

\* lines 159 and 219: stdout_thread.join(timeout=5), the thread has finished
RkJoinOutDone ==
  /\ rpc = "join_out"
  /\ tpc[OutThread(process)] = "done"
  /\ rpc' = "join_err"
  /\ UNCHANGED <<rkIn, has_output_flag, cmds, process, chunks_ref, returncode,
                 rk_result, parsed_json, rkChild, rkThread, rkData, execVars,
                 appVars>>

\* lines 159 and 219: stdout_thread.join(timeout=5), the timeout expires
RkJoinOutTimeout ==
  /\ rpc = "join_out"
  /\ JoinTimesOut(OutThread(process))
  /\ rpc' = "join_err"
  /\ UNCHANGED <<rkIn, has_output_flag, cmds, process, chunks_ref, returncode,
                 rk_result, parsed_json, rkChild, rkThread, rkData, execVars,
                 appVars>>

\* lines 160 and 220: stderr_thread.join(timeout=5), the thread has finished
RkJoinErrDone ==
  /\ rpc = "join_err"
  /\ tpc[ErrThread(process)] = "done"
  /\ rpc' = "collect"
  /\ UNCHANGED <<rkIn, has_output_flag, cmds, process, chunks_ref, returncode,
                 rk_result, parsed_json, rkChild, rkThread, rkData, execVars,
                 appVars>>

\* lines 160 and 220: stderr_thread.join(timeout=5), the timeout expires
RkJoinErrTimeout ==
  /\ rpc = "join_err"
  /\ JoinTimesOut(ErrThread(process))
  /\ rpc' = "collect"
  /\ UNCHANGED <<rkIn, has_output_flag, cmds, process, chunks_ref, returncode,
                 rk_result, parsed_json, rkChild, rkThread, rkData, execVars,
                 appVars>>

\* lines 163-172 and 222-227: the capture lists are read and joined, the
\* result is built; after the first attempt the retry condition is decided
RkCollect ==
  /\ rpc = "collect"
  /\ rk_result' = [cmd |-> cmds[process], returncode |-> returncode,
                   stdout |-> Flatten(bufs[<<chunks_ref, "out">>]),
                   stderr |-> Flatten(bufs[<<chunks_ref, "err">>])]
  /\ rpc' = IF process = 1 /\ ShouldRetry(returncode, has_output_flag)
            THEN "retry" ELSE "parse"
  /\ UNCHANGED <<rkIn, has_output_flag, cmds, process, chunks_ref, returncode,
                 parsed_json, rkChild, rkThread, rkData, execVars, appVars>>

\* lines 174-182: the retry is launched and `process` is rebound to it
RkRetryLaunch ==
  /\ rpc = "retry"
  /\ cmds' = Append(cmds, RetryCmd(k8sgpt_args))
  /\ process' = 2
  /\ cstate' = [cstate EXCEPT ![2] = "running"]
  /\ rpc' = "retry_bind"
  /\ UNCHANGED <<rkIn, has_output_flag, chunks_ref, returncode, rk_result,
                 parsed_json, crc, rkThread, rkData, execVars, appVars>>

\* lines 184-215: stdout_chunks and stderr_chunks are rebound to new lists
\* and the retry's two drain threads are started
RkRetryBind ==
  /\ rpc = "retry_bind"
  /\ chunks_ref' = 2
  /\ tpc' = [tpc EXCEPT !["o2"] = "read", !["e2"] = "read"]
  /\ ttarget' = [ttarget EXCEPT !["o2"] = 2, !["e2"] = 2]
  /\ rpc' = "wait"
  /\ UNCHANGED <<rkIn, has_output_flag, cmds, process, returncode, rk_result,
                 parsed_json, rkChild, json_started, rkData, execVars,
                 appVars>>

\* lines 239-266: the JSON report is extracted and run_k8sgpt returns
RkParse ==
  /\ rpc = "parse"
  /\ parsed_json' = IF need_json /\ rk_result.returncode = 0
                    THEN ExtractJson(rk_result.stdout) ELSE "None"
  /\ rpc' = "returned"
  /\ UNCHANGED <<rkIn, has_output_flag, cmds, process, chunks_ref, returncode,
                 rk_result, rkChild, rkThread, rkData, execVars, appVars>>

\* the main flow of run_k8sgpt
RkMain ==
  \/ RkLaunchMissing \/ RkLaunchJson \/ RkLaunchPlain \/ RkRunDone \/ RkWait
  \/ RkJoinOutDone \/ RkJoinOutTimeout \/ RkJoinErrDone \/ RkJoinErrTimeout
  \/ RkCollect \/ RkRetryLaunch \/ RkRetryBind \/ RkParse

-----------------------------------------------------------------------------
(* execute_with_kubectl_ai: the completion monitor.                         *)
(* The clock counts seconds. The monitor loop, which sleeps 0.1 s per round *)
(* (line 590), runs at least once between two advances of the clock; a step *)
(* of the main flow or of a reader thread that can be taken is taken before *)
(* the clock advances again; a pipe may stay open for any time.             *)

\* line 551
no_output_timeout == 3
\* line 552
max_wait_time == 300
\* lines 593-594: join(timeout=1)
JoinTimeout == 1
\* line 598: process.wait(timeout=2)
WaitTimeout == 2
\* signal.SIGTERM, signal.SIGKILL
SIGTERM == 15
SIGKILL == 9

\* complete lines a pipe of the executor holds unread, at most
PipeCap == 1

\* seconds after its launch during which the executor writes as it likes;
\* later it writes only complete lines, and only for as long as it wrote
\* in every second before
WriteWindow == 4

\* exit codes the executor chooses itself: 1 stands for every non-zero code
OwnExitCodes == {0, 1}

\* a monitor without a ceiling on the elapsed time
CeilingNeverExceeded == FALSE

\* line 580: the hard ceiling on the elapsed time is exceeded
CeilingExceeded == now - start_time > max_wait_time

\* an idle test that forgets has_output
IdleDetectedWithoutFlag == (now - last_output_time) > no_output_timeout

\* line 585: output was received and none for longer than the idle threshold
IdleDetected == has_output /\ (now - last_output_time) > no_output_timeout

\* a wait for the executor's exit that gives up at once
WaitExpiredAtOnce == TRUE

\* lines 598-599: process.wait(timeout=2) raises TimeoutExpired
WaitExpired == now - wait_start >= WaitTimeout

\* a return value that takes every status that is not a positive code for success
ReturnValueNotPositive(rc) == IF rc <= 0 THEN "True" ELSE "False"

\* line 603: return returncode == 0
ReturnValue(rc) == IF rc = 0 THEN "True" ELSE "False"

\* lines 541-547, 605-609: kubectl is missing, Popen raises FileNotFoundError
XLaunchMissing ==
  /\ epc = "start"
  /\ ~xinstalled
  /\ ret' = "False"
  /\ epc' = "done"
  /\ UNCHANGED <<exIn, start_time, polled, wait_start, term_reason, killed,
                 exShared, exChild, xtpc, now, runVars, appVars>>

\* lines 541-575: the executor is launched, the monitor's variables are set
\* and the two reader threads are started
XLaunch ==
  /\ epc = "start"
  /\ xinstalled
  /\ xstate' = "running"
  /\ last_output_time' = now
  /\ start_time' = now
  /\ has_output' = FALSE
  /\ xtpc' = [s \in Streams |-> "read"]
  /\ epc' = "monitor"
  /\ UNCHANGED <<exIn, polled, wait_start, term_reason, killed, ret, xrc,
                 xpending, xpartial, last_write, now, runVars, appVars>>

\* line 578: process.poll() is not None, the loop ends
XMonitorExited ==
  /\ epc = "monitor"
  /\ xstate = "exited"
  /\ epc' = "join_out"
  /\ wait_start' = now
  /\ UNCHANGED <<exIn, start_time, polled, term_reason, killed, ret, exShared,
                 exChild, xtpc, now, runVars, appVars>>

\* lines 580-582: the hard ceiling is exceeded, process.terminate()
XMonitorCeiling ==
  /\ epc = "monitor"
  /\ xstate = "running"
  /\ CeilingExceeded
  /\ term_reason' = "ceiling"
  /\ epc' = "join_out"
  /\ wait_start' = now
  /\ UNCHANGED <<exIn, start_time, polled, killed, ret, exShared, exChild,
                 xtpc, now, runVars, appVars>>

\* lines 585-588: idle, process.terminate()
XMonitorIdle ==
  /\ epc = "monitor"
  /\ xstate = "running"
  /\ ~CeilingExceeded
  /\ IdleDetected
  /\ term_reason' = "idle"
  /\ epc' = "join_out"
  /\ wait_start' = now
  /\ UNCHANGED <<exIn, start_time, polled, killed, ret, exShared, exChild,
                 xtpc, now, runVars, appVars>>

\* line 590: neither; time.sleep(0.1)
XMonitorSleep ==
  /\ epc = "monitor"
  /\ xstate = "running"
  /\ ~CeilingExceeded
  /\ ~IdleDetected
  /\ ~polled
  /\ polled' = TRUE
  /\ UNCHANGED <<exIn, epc, start_time, wait_start, term_reason, killed, ret,
                 exShared, exChild, xtpc, now, runVars, appVars>>

\* line 593: stdout_thread.join(timeout=1), the thread has finished
XJoinOutDone ==
  /\ epc = "join_out"
  /\ xtpc["out"] = "done"
  /\ epc' = "join_err"
  /\ wait_start' = now
  /\ UNCHANGED <<exIn, start_time, polled, term_reason, killed, ret, exShared,
                 exChild, xtpc, now, runVars, appVars>>

\* line 593: stdout_thread.join(timeout=1), the timeout expires
XJoinOutTimeout ==
  /\ epc = "join_out"
  /\ xtpc["out"] # "done"
  /\ now - wait_start >= JoinTimeout
  /\ epc' = "join_err"
  /\ wait_start' = now
  /\ UNCHANGED <<exIn, start_time, polled, term_reason, killed, ret, exShared,
                 exChild, xtpc, now, runVars, appVars>>

\* line 594: stderr_thread.join(timeout=1), the thread has finished
XJoinErrDone ==
  /\ epc = "join_err"
  /\ xtpc["err"] = "done"
  /\ epc' = "wait"
  /\ wait_start' = now
  /\ UNCHANGED <<exIn, start_time, polled, term_reason, killed, ret, exShared,
                 exChild, xtpc, now, runVars, appVars>>

\* line 594: stderr_thread.join(timeout=1), the timeout expires
XJoinErrTimeout ==
  /\ epc = "join_err"
  /\ xtpc["err"] # "done"
  /\ now - wait_start >= JoinTimeout
  /\ epc' = "wait"
  /\ wait_start' = now
  /\ UNCHANGED <<exIn, start_time, polled, term_reason, killed, ret, exShared,
                 exChild, xtpc, now, runVars, appVars>>

\* lines 598 and 603: process.wait(timeout=2) returns the exit status
XWaitDone ==
  /\ epc = "wait"
  /\ xstate = "exited"
  /\ ret' = ReturnValue(xrc)
  /\ epc' = "done"
  /\ UNCHANGED <<exIn, start_time, polled, wait_start, term_reason, killed,
                 exShared, exChild, xtpc, now, runVars, appVars>>

\* lines 599-600: TimeoutExpired; process.kill() ends the executor
XWaitTimeout ==
  /\ epc = "wait"
  /\ xstate = "running"
  /\ WaitExpired
  /\ xstate' = "exited"
  /\ xrc' = -SIGKILL
  /\ killed' = TRUE
  /\ epc' = "wait_killed"
  /\ UNCHANGED <<exIn, start_time, polled, wait_start, term_reason, ret,
                 exShared, xpending, xpartial, last_write, xtpc, now, runVars,
                 appVars>>

\* lines 601 and 603: process.wait() returns the status of the killed executor
XWaitKilled ==
  /\ epc = "wait_killed"
  /\ ret' = ReturnValue(xrc)
  /\ epc' = "done"
  /\ UNCHANGED <<exIn, start_time, polled, wait_start, term_reason, killed,
                 exShared, exChild, xtpc, now, runVars, appVars>>

\* the main flow of execute_with_kubectl_ai
XMain ==
  \/ XLaunchMissing \/ XLaunch \/ XMonitorExited \/ XMonitorCeiling
  \/ XMonitorIdle \/ XMonitorSleep \/ XJoinOutDone \/ XJoinOutTimeout
  \/ XJoinErrDone \/ XJoinErrTimeout \/ XWaitDone \/ XWaitTimeout
  \/ XWaitKilled

\* execute_with_kubectl_ai has launched the executor and not returned
InExec == epc \notin {"off", "start", "done"}

\* lines 560-561: `for line in stream` yields a complete line; has_output
XReadLine(s) ==
  /\ InExec
  /\ xtpc[s] = "read"
  /\ xpending[s] > 0
  /\ xpending' = [xpending EXCEPT ![s] = @ - 1]
  /\ has_output' = TRUE
  /\ xtpc' = [xtpc EXCEPT ![s] = "stamp"]
  /\ UNCHANGED <<exIn, exFlow, last_output_time, xstate, xrc, xpartial,
                 last_write, now, runVars, appVars>>

\* lines 560-561: at end of file `for line in stream` yields the bytes that
\* no newline followed, as the last line. End of file needs every write end
\* of the pipe closed: at the executor's exit, later, or never.
XReadTail(s) ==
  /\ InExec
  /\ xtpc[s] = "read"
  /\ xpending[s] = 0
  /\ xpartial[s]
  /\ xstate = "exited"
  /\ xpartial' = [xpartial EXCEPT ![s] = FALSE]
  /\ has_output' = TRUE
  /\ xtpc' = [xtpc EXCEPT ![s] = "stamp"]
  /\ UNCHANGED <<exIn, exFlow, last_output_time, xstate, xrc, xpending,
                 last_write, now, runVars, appVars>>

\* lines 562-566: last_output_time = time.time(); the line is printed
XStamp(s) ==
  /\ InExec
  /\ xtpc[s] = "stamp"
  /\ last_output_time' = now
  /\ xtpc' = [xtpc EXCEPT ![s] = "read"]
  /\ UNCHANGED <<exIn, exFlow, has_output, exChild, now, runVars, appVars>>

\* line 560: end of file, the loop and the thread end
XEof(s) ==
  /\ InExec
  /\ xtpc[s] = "read"
  /\ xpending[s] = 0
  /\ ~xpartial[s]
  /\ xstate = "exited"
  /\ xtpc' = [xtpc EXCEPT ![s] = "done"]
  /\ UNCHANGED <<exIn, exFlow, exShared, exChild, now, runVars, appVars>>

\* the executor writes a line, newline included, to stream s
XWriteLine(s) ==
  /\ InExec
  /\ xstate = "running"
  /\ now - start_time <= WriteWindow \/ (last_write >= 0 /\ now - last_write <= 1)
  /\ xpending[s] < PipeCap
  /\ xpending' = [xpending EXCEPT ![s] = @ + 1]
  /\ xpartial' = [xpartial EXCEPT ![s] = FALSE]
  /\ last_write' = now
  /\ UNCHANGED <<exIn, exFlow, exShared, xstate, xrc, xtpc, now, runVars,
                 appVars>>

\* the executor writes bytes without a newline to stream s (a prompt, a
\* progress indicator)
XWritePartial(s) ==
  /\ InExec
  /\ xstate = "running"
  /\ now - start_time <= WriteWindow
  /\ ~xpartial[s] \/ last_write # now
  /\ xpartial' = [xpartial EXCEPT ![s] = TRUE]
  /\ last_write' = now
  /\ UNCHANGED <<exIn, exFlow, exShared, xstate, xrc, xpending, xtpc, now,
                 runVars, appVars>>

\* the executor exits: with a code of its own, or, once process.terminate()
\* has sent SIGTERM, ended by that signal
XExit ==
  /\ InExec
  /\ xstate = "running"
  /\ \E rc \in OwnExitCodes \cup {-SIGTERM} :
       /\ rc = -SIGTERM => term_reason # "none"
       /\ xrc' = rc
  /\ xstate' = "exited"
  /\ UNCHANGED <<exIn, exFlow, exShared, xpending, xpartial, last_write, xtpc,
                 now, runVars, appVars>>

\* a step that is taken before the clock advances
XUrgent ==
  \/ epc = "monitor" /\ ~polled
  \/ epc = "join_out" /\ (xtpc["out"] = "done" \/ now - wait_start >= JoinTimeout)
  \/ epc = "join_err" /\ (xtpc["err"] = "done" \/ now - wait_start >= JoinTimeout)
  \/ epc = "wait" /\ (xstate = "exited" \/ WaitExpired)
  \/ epc = "wait_killed"
  \/ \E s \in Streams : xtpc[s] = "stamp" \/ (xtpc[s] = "read" /\ xpending[s] > 0)

\* the clock advances by one second
Tick ==
  /\ InExec
  /\ ~XUrgent
  /\ now' = now + 1
  /\ polled' = FALSE
  /\ UNCHANGED <<exIn, epc, start_time, wait_start, term_reason, killed, ret,
                 exShared, exChild, xtpc, runVars, appVars>>

-----------------------------------------------------------------------------
(* main: from the diagnoser's report to the executor.                       *)
(* A call of run_k8sgpt or of execute_with_kubectl_ai is taken here by its  *)
(* result: every result the call can return is drawn.                       *)

\* entries of one group, at most
MaxEntries == 2
\* groups of one report, at most
MaxGroups == 2
\* lines the operator types in one run, at most
MaxInputs == 3

\* the value of `selected`
NotSelected == [kind |-> "none", id |-> 0]
Entry(n) == [kind |-> "entry", id |-> n]
Custom == [kind |-> "custom", id |-> 0]

\* values of --auto-select N (argparse type=int)
AutoValues == -1 .. (MaxEntries + 1)

\* numbers the operator types
TypedNumbers == 0 .. (MaxEntries + 1)

RECURSIVE SeqsUpTo(_, _)
\* the sequences over S of length 1..n
SeqsUpTo(S, n) ==
  IF n = 0 THEN {}
  ELSE {<<x>> : x \in S} \cup
       {Append(q, x) : q \in SeqsUpTo(S, n - 1), x \in S}

\* grouped (line 666): the sizes of the groups, in order of first appearance
GroupLists == SeqsUpTo(1 .. MaxEntries, MaxGroups)

\* data of main: None, the empty JSON object, or a report with its "status"
\* and "problems" (1 stands for every count above 0)
NoReport == [json |-> "None", status |-> "absent", problems |-> 0]
EmptyObject == [json |-> "EmptyObject", status |-> "absent", problems |-> 0]
Reports == [json : {"Report"}, status : {"OK", "ProblemDetected"}, problems : {0, 1}]
DiagData == {NoReport, EmptyObject} \cup Reports

\* line 648: `not data` holds for None and for an empty object
NotData(d) == d.json \in {"None", "EmptyObject"}

\* a test that takes a report for clean only when status and count agree
NoProblemsWhenBoth(d) == d.status = "OK" /\ d.problems = 0

\* line 654: data.get("status") == "OK" or data.get("problems", 0) == 0
NoProblems(d) == d.status = "OK" \/ d.problems = 0

\* a test that takes every value of selected for a selection
IsSelectedAlways(sel) == TRUE

\* lines 683 and 712: `if selected:`
IsSelected(sel) == sel # NotSelected

\* lines 674 and 703: `if args.auto_select:` holds for an integer other than 0
AutoSelectSet(given, n) == given /\ n # 0

\* lines 675 and 704: 1 <= args.auto_select <= len(error_solutions)
InRange(n, m) == 1 <= n /\ n <= m

\* len(error_solutions) of the displayed group
GroupSize == IF sel_group = 0 THEN 0 ELSE groups[sel_group]

\* the run ends with exit status c
MainExit(c) ==
  /\ exit_code' = c
  /\ mpc' = "exited"


\* lines 640 and 721, 268-270: k8sgpt is missing, run_k8sgpt calls sys.exit(1)
MainDiagMissing ==
  /\ mpc = "start"
  /\ MainExit(1)
  /\ UNCHANGED <<appIn, solVars, last_input, message, success, diag_rc,
                 diag_data, groups, sel_group, selected, inputs_left,
                 custom_lines, n_error_prompts, n_solution_prompts,
                 exec_launched, runVars, execVars>>

\* lines 718-780: without --explain main shows the output and exits with the
\* diagnoser's exit code
MainPlain ==
  /\ mpc = "start"
  /\ ~has_explain
  /\ \E rc \in ExitCodes, d \in DiagData :
       /\ diag_rc' = rc
       /\ diag_data' = d
       /\ MainExit(rc)
  /\ UNCHANGED <<appIn, solVars, last_input, message, success, groups,
                 sel_group, selected, inputs_left, custom_lines,
                 n_error_prompts, n_solution_prompts, exec_launched, runVars,
                 execVars>>

\* lines 640-646: the diagnoser failed, sys.exit(result.returncode)
MainDiagFailed ==
  /\ mpc = "start"
  /\ has_explain
  /\ \E rc \in ExitCodes \ {0} :
       /\ diag_rc' = rc
       /\ MainExit(rc)
  /\ diag_data' = NoReport
  /\ UNCHANGED <<appIn, solVars, last_input, message, success, groups,
                 sel_group, selected, inputs_left, custom_lines,
                 n_error_prompts, n_solution_prompts, exec_launched, runVars,
                 execVars>>

\* lines 648-651: no report, sys.exit(1)
MainNoData ==
  /\ mpc = "start"
  /\ has_explain
  /\ \E d \in DiagData :
       /\ NotData(d)
       /\ diag_data' = d
  /\ diag_rc' = 0
  /\ MainExit(1)
  /\ message' = "malformed"
  /\ UNCHANGED <<appIn, solVars, last_input, success, groups, sel_group,
                 selected, inputs_left, custom_lines, n_error_prompts,
                 n_solution_prompts, exec_launched, runVars, execVars>>

\* lines 654-656: status OK or no problems; main returns
MainNoProblems ==
  /\ mpc = "start"
  /\ has_explain
  /\ diag_rc' = 0
  /\ \E d \in DiagData :
       /\ ~NotData(d)
       /\ NoProblems(d)
       /\ diag_data' = d
  /\ MainExit(0)
  /\ message' = "no_problems"
  /\ UNCHANGED <<appIn, solVars, last_input, success, groups, sel_group,
                 selected, inputs_left, custom_lines, n_error_prompts,
                 n_solution_prompts, exec_launched, runVars, execVars>>

\* lines 659-663: problems but no solutions; main returns
MainNoSolutions ==
  /\ mpc = "start"
  /\ has_explain
  /\ diag_rc' = 0
  /\ \E d \in DiagData :
       /\ ~NotData(d)
       /\ ~NoProblems(d)
       /\ diag_data' = d
  /\ MainExit(0)
  /\ message' = "no_solutions"
  /\ UNCHANGED <<appIn, solVars, last_input, success, groups, sel_group,
                 selected, inputs_left, custom_lines, n_error_prompts,
                 n_solution_prompts, exec_launched, runVars, execVars>>

\* lines 666-671: one group, its entries are displayed
MainSingleGroup ==
  /\ mpc = "start"
  /\ has_explain
  /\ diag_rc' = 0
  /\ \E d \in DiagData :
       /\ ~NotData(d)
       /\ ~NoProblems(d)
       /\ diag_data' = d
  /\ \E g \in GroupLists :
       /\ Len(g) = 1
       /\ groups' = g
  /\ sel_group' = 1
  /\ mpc' = "choose"
  /\ UNCHANGED <<appIn, solVars, last_input, message, success, selected,
                 inputs_left, custom_lines, n_error_prompts,
                 n_solution_prompts, exec_launched, exit_code, runVars,
                 execVars>>

\* lines 666, 689-694: several groups, the groups are displayed
MainMultiGroup ==
  /\ mpc = "start"
  /\ has_explain
  /\ diag_rc' = 0
  /\ \E d \in DiagData :
       /\ ~NotData(d)
       /\ ~NoProblems(d)
       /\ diag_data' = d
  /\ \E g \in GroupLists :
       /\ Len(g) > 1
       /\ groups' = g
  /\ mpc' = "select_error"
  /\ UNCHANGED <<appIn, solVars, last_input, message, success, sel_group,
                 selected, inputs_left, custom_lines, n_error_prompts,
                 n_solution_prompts, exec_launched, exit_code, runVars,
                 execVars>>

\* line 412: select_error issues its prompt and reads a line
ErrorPrompt ==
  /\ mpc = "select_error"
  /\ inputs_left > 0
  /\ inputs_left' = inputs_left - 1
  /\ n_error_prompts' = n_error_prompts + 1

\* lines 414-415, 424-426, 695-697: 'q' or an interrupt; main returns
SelectErrorQuit ==
  /\ ErrorPrompt
  /\ MainExit(0)
  /\ last_input' \in {"q", "interrupt"}
  /\ message' = "no_error_selected"
  /\ UNCHANGED <<appIn, solVars, success, diag_rc, diag_data, groups,
                 sel_group, selected, custom_lines, n_solution_prompts,
                 exec_launched, runVars, execVars>>

\* lines 417-419, 699-700: a number of a group; its entries are displayed
SelectErrorPick ==
  /\ ErrorPrompt
  /\ \E n \in TypedNumbers :
       /\ InRange(n, Len(groups))
       /\ sel_group' = n
  /\ mpc' = "choose"
  /\ last_input' = "number"
  /\ UNCHANGED <<appIn, solVars, message, success, diag_rc, diag_data,
                 groups, selected, custom_lines, n_solution_prompts,
                 exec_launched, exit_code, runVars, execVars>>

\* lines 420-423: a number out of range or no number; the prompt is repeated
SelectErrorRetry ==
  /\ ErrorPrompt
  /\ mpc' = "select_error"
  /\ last_input' \in {"out_of_range", "not_a_number"}
  /\ UNCHANGED <<appIn, solVars, message, success, diag_rc, diag_data,
                 groups, sel_group, selected, custom_lines,
                 n_solution_prompts, exec_launched, exit_code, runVars,
                 execVars>>

\* line 412: end of input; EOFError is not caught, the run ends with status 1
SelectErrorEof ==
  /\ ErrorPrompt
  /\ MainExit(1)
  /\ last_input' = "eof"
  /\ UNCHANGED <<appIn, solVars, message, success, diag_rc, diag_data,
                 groups, sel_group, selected, custom_lines,
                 n_solution_prompts, exec_launched, runVars, execVars>>

\* lines 674-676, 703-705: the auto-select index is in range
AutoSelectValid ==
  /\ mpc = "choose"
  /\ AutoSelectSet(auto_given, auto_select)
  /\ InRange(auto_select, GroupSize)
  /\ selected' = Entry(auto_select)
  /\ mpc' = "execute"
  /\ UNCHANGED <<appIn, solVars, last_input, message, success, diag_rc,
                 diag_data, groups, sel_group, inputs_left, custom_lines,
                 n_error_prompts, n_solution_prompts, exec_launched,
                 exit_code, runVars, execVars>>

\* lines 677-679, 706-708: the auto-select index is out of range, sys.exit(1)
AutoSelectOutOfRange ==
  /\ mpc = "choose"
  /\ AutoSelectSet(auto_given, auto_select)
  /\ ~InRange(auto_select, GroupSize)
  /\ MainExit(1)
  /\ message' = "out_of_range"
  /\ UNCHANGED <<appIn, solVars, last_input, success, diag_rc, diag_data,
                 groups, sel_group, selected, inputs_left, custom_lines,
                 n_error_prompts, n_solution_prompts, exec_launched, runVars,
                 execVars>>

\* lines 680-681, 709-710: else, select_solution(error_solutions)
AutoSelectUnset ==
  /\ mpc = "choose"
  /\ ~AutoSelectSet(auto_given, auto_select)
  /\ mpc' = "select_solution"
  /\ UNCHANGED <<appIn, solVars, last_input, message, success, diag_rc,
                 diag_data, groups, sel_group, selected, inputs_left,
                 custom_lines, n_error_prompts, n_solution_prompts,
                 exec_launched, exit_code, runVars, execVars>>

\* line 449: select_solution issues its prompt and reads a line
SolutionPrompt ==
  /\ mpc = "select_solution"
  /\ inputs_left > 0
  /\ inputs_left' = inputs_left - 1
  /\ n_solution_prompts' = n_solution_prompts + 1

\* lines 451-452, 468-470: 'q' or an interrupt; select_solution returns None
SelectSolutionQuit ==
  /\ SolutionPrompt
  /\ mpc' = "execute"
  /\ last_input' \in {"q", "interrupt"}
  /\ UNCHANGED <<appIn, solVars, message, success, exit_code, diag_rc,
                 diag_data, groups, sel_group, selected, custom_lines,
                 n_error_prompts, exec_launched, runVars, execVars>>

\* lines 454-456: 'c', prompt_custom_solution
SelectSolutionCustom ==
  /\ SolutionPrompt
  /\ custom_lines' = 0
  /\ mpc' = "custom"
  /\ last_input' = "c"
  /\ UNCHANGED <<appIn, solVars, message, success, diag_rc, diag_data,
                 groups, sel_group, selected, n_error_prompts, exec_launched,
                 exit_code, runVars, execVars>>

\* lines 458-463: the number of a displayed entry
SelectSolutionPick ==
  /\ SolutionPrompt
  /\ \E n \in TypedNumbers :
       /\ InRange(n, GroupSize)
       /\ selected' = Entry(n)
  /\ mpc' = "execute"
  /\ last_input' = "number"
  /\ UNCHANGED <<appIn, solVars, message, success, diag_rc, diag_data,
                 groups, sel_group, custom_lines, n_error_prompts,
                 exec_launched, exit_code, runVars, execVars>>

\* lines 464-467: a number out of range or no number; the prompt is repeated
SelectSolutionRetry ==
  /\ SolutionPrompt
  /\ mpc' = "select_solution"
  /\ last_input' \in {"out_of_range", "not_a_number"}
  /\ UNCHANGED <<appIn, solVars, message, success, diag_rc, diag_data,
                 groups, sel_group, selected, custom_lines, n_error_prompts,
                 exec_launched, exit_code, runVars, execVars>>

\* line 449: end of input; EOFError is not caught, the run ends with status 1
SelectSolutionEof ==
  /\ SolutionPrompt
  /\ MainExit(1)
  /\ last_input' = "eof"
  /\ UNCHANGED <<appIn, solVars, message, success, diag_rc, diag_data,
                 groups, sel_group, selected, custom_lines, n_error_prompts,
                 exec_launched, runVars, execVars>>

\* line 494: prompt_custom_solution reads a line
CustomRead ==
  /\ mpc = "custom"
  /\ inputs_left > 0
  /\ inputs_left' = inputs_left - 1

\* lines 495-501: a line of text is appended; an empty line before any text
\* is skipped
CustomLine ==
  /\ CustomRead
  /\ \E empty \in BOOLEAN :
       /\ empty => custom_lines = 0
       /\ custom_lines' = IF empty THEN custom_lines ELSE custom_lines + 1
       /\ last_input' = IF empty THEN "empty" ELSE "text"
  /\ mpc' = "custom"
  /\ UNCHANGED <<appIn, solVars, message, success, diag_rc, diag_data,
                 groups, sel_group, selected, n_error_prompts,
                 n_solution_prompts, exec_launched, exit_code, runVars,
                 execVars>>

\* lines 496-498, 502-520: an empty line or the end of input after some text;
\* the text is the selected entry
CustomFinish ==
  /\ CustomRead
  /\ custom_lines > 0
  /\ selected' = Custom
  /\ mpc' = "execute"
  /\ last_input' \in {"empty", "eof"}
  /\ UNCHANGED <<appIn, solVars, message, success, diag_rc, diag_data,
                 groups, sel_group, custom_lines, n_error_prompts,
                 n_solution_prompts, exec_launched, exit_code, runVars,
                 execVars>>

\* lines 502-510, 521-523: the end of input before any text, or an interrupt;
\* prompt_custom_solution returns None
CustomCancel ==
  /\ CustomRead
  /\ mpc' = "execute"
  /\ \E i \in {"eof", "interrupt"} :
       /\ i = "eof" => custom_lines = 0
       /\ last_input' = i
  /\ UNCHANGED <<appIn, solVars, message, success, exit_code, diag_rc,
                 diag_data, groups, sel_group, selected, custom_lines,
                 n_error_prompts, n_solution_prompts, exec_launched, runVars,
                 execVars>>

\* lines 683-686, 712-715: execute_with_kubectl_ai(selected);
\* sys.exit(0 if success else 1)
MainExecute ==
  /\ mpc = "execute"
  /\ IsSelected(selected)
  /\ exec_launched' = TRUE
  /\ \E ok \in BOOLEAN :
       /\ success' = IF ok THEN "True" ELSE "False"
       /\ MainExit(IF ok THEN 0 ELSE 1)
  /\ UNCHANGED <<appIn, solVars, last_input, message, diag_rc, diag_data,
                 groups, sel_group, selected, inputs_left, custom_lines,
                 n_error_prompts, n_solution_prompts, runVars, execVars>>

\* lines 687-688, 716-717: nothing is selected; main prints that and returns
MainNoSelection ==
  /\ mpc = "execute"
  /\ ~IsSelected(selected)
  /\ message' = "no_solution_selected"
  /\ MainExit(0)
  /\ UNCHANGED <<appIn, solVars, last_input, success, diag_rc, diag_data,
                 groups, sel_group, selected, inputs_left, custom_lines,
                 n_error_prompts, n_solution_prompts, exec_launched, runVars,
                 execVars>>

-----------------------------------------------------------------------------
(* extract_solutions and group_solutions_by_error.                          *)
(* A text is a sequence of one-character strings; the character "S" stands  *)
(* for the marker text "Solution:", "1" for any digit, "a" for any other    *)
(* character that is not white space, "|" for itself.                       *)

\* pieces a details text is made of, at most
MaxPieces == 4
\* Findings of a report, at most
MaxFindings == 2

\* "Solution:"
Marker == "S"

\* line 295: "Solution:" in details
HasMarker(s) == \E i \in 1..Len(s) : s[i] = Marker

RECURSIVE SplitOnMarker(_)
\* line 296: details.split("Solution:"), the list of the parts between markers
SplitOnMarker(s) ==
  IF HasMarker(s)
  THEN LET i == CHOOSE k \in 1..Len(s) :
                  s[k] = Marker /\ \A j \in 1..(k - 1) : s[j] # Marker
       IN <<SubSeq(s, 1, i - 1)>> \o SplitOnMarker(SubSeq(s, i + 1, Len(s)))
  ELSE <<s>>

\* line 296: details.split("Solution:")[1].strip()
SolutionPart(details) == Strip(SplitOnMarker(details)[2])

\* line 299 and 309: re.match(r'^(\d+)\.\s+(.+)$', line) for a stripped line
StepPattern(line) ==
  \E i \in 1..Len(line) :
    /\ \A j \in 1..i : line[j] = "1"
    /\ Len(line) >= i + 3
    /\ line[i + 1] = "."
    /\ line[i + 2] \in WhiteSpace \ {"\n"}

RECURSIVE StepsOfLines(_, _, _)
\* lines 301-326: the loop over the lines, with current_step and
\* solution_steps, and the append of the last step
StepsOfLines(lines, current_step, solution_steps) ==
  IF lines = <<>>
  THEN IF current_step # <<>>
       THEN Append(solution_steps, Strip(current_step))
       ELSE solution_steps
  ELSE LET line == Strip(Head(lines)) IN
       IF line = <<>>
       THEN StepsOfLines(Tail(lines), current_step, solution_steps)
       ELSE IF StepPattern(line)
       THEN StepsOfLines(Tail(lines), line,
                         IF current_step # <<>>
                         THEN Append(solution_steps, Strip(current_step))
                         ELSE solution_steps)
       ELSE StepsOfLines(Tail(lines),
                         IF current_step # <<>>
                         THEN current_step \o <<" ">> \o line
                         ELSE line,
                         solution_steps)

\* lines 294-329: solution_steps of one result
SolutionSteps(details) ==
  IF HasMarker(details)
  THEN StepsOfLines(SplitLines(SolutionPart(details)), <<>>, <<>>)
  ELSE <<details>>

\* line 281: result.get("error") and result.get("details")
HasErrorAndDetails(result) == result.error # <<>> /\ result.details # <<>>

\* lines 286-291: the Text of the first error record
ErrorText(result) == result.error[1]

\* lines 332-340: the entries of one result, appended to a list of n entries
EntriesOf(result, n) ==
  LET steps == SolutionSteps(result.details) IN
  [idx \in 1..Len(steps) |->
     [id |-> n + idx,
      kind |-> result.kind,
      name |-> result.name,
      error |-> ErrorText(result),
      solution |-> steps[idx],
      full_details |-> result.details]]

\* line 350: f"{sol['kind']}|{sol['name']}|{sol['error']}"
GroupKey(sol) == sol.kind \o <<"|">> \o sol.name \o <<"|">> \o sol.error

\* lines 351-353: sol is appended to the list of its key; a new key is added
\* at the end of the dict
GroupInsert(g, sol) ==
  IF \E i \in 1..Len(g) : g[i].key = GroupKey(sol)
  THEN [i \in 1..Len(g) |->
          IF g[i].key = GroupKey(sol)
          THEN [g[i] EXCEPT !.entries = Append(@, sol)]
          ELSE g[i]]
  ELSE Append(g, [key |-> GroupKey(sol), entries |-> <<sol>>])

\* the pieces of a details text: the marker, a numbered line, digits and a
\* period with no text, a word, a space, a line break
Pieces ==
  { <<Marker>>, <<"1", ".", " ", "a">>, <<"1", ".">>, <<"a">>, <<" ">>, <<"\n">> }

\* the details texts of at most n pieces (the empty text among them)
DetailsTexts(n) == {<<>>} \cup {Flatten(q) : q \in SeqsUpTo(Pieces, n)}

\* kinds and names; "|" is a character like any other
Kinds == { <<"a">>, <<"a", "|", "b">> }
Names == { <<"b">>, <<"b", "|", "b">> }
\* the error lists of a result: absent or empty, or one record with a Text
ErrorLists == { <<>>, << <<"e">> >>, << <<"f">> >> }

\* a report with one Finding and any details text
DetailReports ==
  { << [kind |-> <<"a">>, name |-> <<"b">>, error |-> << <<"e">> >>, details |-> d] >> :
      d \in DetailsTexts(MaxPieces) }

\* reports with several Findings and short details texts
GroupReports ==
  SeqsUpTo([kind : Kinds, name : Names, error : ErrorLists,
            details : {<<>>, <<"a">>, <<Marker>>}],
           MaxFindings)

\* lines 280-340: one round of the loop over data["results"]
ExtractResult ==
  /\ spc = "extract"
  /\ next_result <= Len(data)
  /\ solutions' = IF HasErrorAndDetails(data[next_result])
                  THEN solutions \o EntriesOf(data[next_result], Len(solutions))
                  ELSE solutions
  /\ next_result' = next_result + 1
  /\ UNCHANGED <<spc, data, next_sol, grouped, appIn, appFlow, runVars, execVars>>

\* lines 342, 666, 347: extract_solutions returns; group_solutions_by_error
\* is called with its result
ExtractReturn ==
  /\ spc = "extract"
  /\ next_result > Len(data)
  /\ spc' = "group"
  /\ UNCHANGED <<data, next_result, solutions, next_sol, grouped, appIn,
                 appFlow, runVars, execVars>>

\* lines 348-353: one round of the loop over solutions
GroupSolution ==
  /\ spc = "group"
  /\ next_sol <= Len(solutions)
  /\ grouped' = GroupInsert(grouped, solutions[next_sol])
  /\ next_sol' = next_sol + 1
  /\ UNCHANGED <<spc, data, next_result, solutions, appIn, appFlow, runVars,
                 execVars>>

\* line 354: group_solutions_by_error returns
GroupReturn ==
  /\ spc = "group"
  /\ next_sol > Len(solutions)
  /\ spc' = "done"
  /\ UNCHANGED <<data, next_result, solutions, next_sol, grouped, appIn,
                 appFlow, runVars, execVars>>

-----------------------------------------------------------------------------
(* Idle values of the families *)

NoResult == [cmd |-> <<>>, returncode |-> -1, stdout |-> <<>>, stderr |-> <<>>]

RunIdle ==
  /\ k8sgpt_args = <<>> /\ need_json = FALSE /\ installed = FALSE
  /\ rpc = "off" /\ has_output_flag = FALSE /\ cmds = <<>> /\ process = 0
  /\ chunks_ref = 0 /\ returncode = -1 /\ rk_result = NoResult
  /\ parsed_json = "None"
  /\ cstate = [a \in Attempts |-> "none"]
  /\ crc = [a \in Attempts |-> -1]
  /\ emitted = [p \in Pipes |-> <<>>]
  /\ tpc = [t \in Threads |-> "idle"]
  /\ ttarget = [t \in Threads |-> 0]
  /\ json_started = [t \in Threads |-> FALSE]
  /\ bufs = [p \in Pipes |-> <<>>]
  /\ echoed = [t \in Threads |-> <<>>]
  /\ handled = [t \in Threads |-> <<>>]

ExecIdle ==
  /\ xinstalled = FALSE /\ epc = "off" /\ now = 0 /\ start_time = 0
  /\ last_output_time = 0 /\ has_output = FALSE /\ polled = FALSE
  /\ wait_start = 0 /\ xstate = "none" /\ xrc = 0 /\ term_reason = "none"
  /\ killed = FALSE
  /\ xpending = [s \in Streams |-> 0]
  /\ xpartial = [s \in Streams |-> FALSE]
  /\ xtpc = [s \in Streams |-> "idle"]
  /\ last_write = -1 /\ ret = "none"

AppIdle ==
  /\ mpc = "off" /\ auto_given = FALSE /\ auto_select = 0
  /\ has_explain = FALSE /\ diag_rc = -1 /\ diag_data = NoReport
  /\ groups = <<>> /\ sel_group = 0 /\ selected = NotSelected
  /\ inputs_left = 0
  /\ custom_lines = 0 /\ n_error_prompts = 0 /\ n_solution_prompts = 0
  /\ exec_launched = FALSE /\ exit_code = -1
  /\ last_input = "none" /\ message = "none" /\ success = "none"

SolIdle ==
  /\ spc = "off" /\ data = <<>> /\ next_result = 1 /\ solutions = <<>>
  /\ next_sol = 1 /\ grouped = <<>>

-----------------------------------------------------------------------------
(* SpecRun: one call of run_k8sgpt *)

\* main, lines 628-640 and 721: run_k8sgpt(k8sgpt_args, need_json=has_explain)
InitRun ==
  /\ k8sgpt_args \in ArgLists
  /\ need_json = HasExplain(k8sgpt_args)
  /\ installed \in BOOLEAN
  /\ rpc = "start" /\ has_output_flag = FALSE /\ cmds = <<>> /\ process = 0
  /\ chunks_ref = 0 /\ returncode = -1 /\ rk_result = NoResult
  /\ parsed_json = "None"
  /\ cstate = [a \in Attempts |-> "none"]
  /\ crc = [a \in Attempts |-> -1]
  /\ emitted = [p \in Pipes |-> <<>>]
  /\ tpc = [t \in Threads |-> "idle"]
  /\ ttarget = [t \in Threads |-> 0]
  /\ json_started = [t \in Threads |-> FALSE]
  /\ bufs = [p \in Pipes |-> <<>>]
  /\ echoed = [t \in Threads |-> <<>>]
  /\ handled = [t \in Threads |-> <<>>]
  /\ ExecIdle
  /\ AppIdle
  /\ SolIdle

NextRun ==
  \/ RkLaunchMissing \/ RkLaunchJson \/ RkLaunchPlain \/ RkRunDone \/ RkWait
  \/ RkJoinOutDone \/ RkJoinOutTimeout \/ RkJoinErrDone \/ RkJoinErrTimeout
  \/ RkCollect \/ RkRetryLaunch \/ RkRetryBind \/ RkParse
  \/ \E t \in Threads : ThreadChunk(t) \/ ThreadEof(t)
  \/ \E a \in Attempts : ChildExit(a)

SpecRun == InitRun /\ [][NextRun]_vars

\* The main flow is a running Python thread: whenever it can take a step it
\* eventually does. Nothing is assumed of the children or of the pipes.
FairSpecRun == SpecRun /\ WF_vars(RkMain)

-----------------------------------------------------------------------------
(* SpecExec: one call of execute_with_kubectl_ai *)

InitExec ==
  /\ xinstalled \in BOOLEAN
  /\ epc = "start" /\ now = 0 /\ start_time = 0
  /\ last_output_time = 0 /\ has_output = FALSE /\ polled = FALSE
  /\ wait_start = 0 /\ xstate = "none" /\ xrc = 0 /\ term_reason = "none"
  /\ killed = FALSE
  /\ xpending = [s \in Streams |-> 0]
  /\ xpartial = [s \in Streams |-> FALSE]
  /\ xtpc = [s \in Streams |-> "idle"]
  /\ last_write = -1 /\ ret = "none"
  /\ RunIdle
  /\ AppIdle
  /\ SolIdle

NextExec ==
  \/ XLaunchMissing \/ XLaunch \/ XMonitorExited \/ XMonitorCeiling
  \/ XMonitorIdle \/ XMonitorSleep \/ XJoinOutDone \/ XJoinOutTimeout
  \/ XJoinErrDone \/ XJoinErrTimeout \/ XWaitDone \/ XWaitTimeout
  \/ XWaitKilled
  \/ \E s \in Streams : XReadLine(s) \/ XReadTail(s) \/ XStamp(s) \/ XEof(s)
  \/ \E s \in Streams : XWriteLine(s) \/ XWritePartial(s)
  \/ XExit
  \/ Tick

SpecExec == InitExec /\ [][NextExec]_vars

-----------------------------------------------------------------------------
(* SpecMain: one run of main *)

\* lines 616-635: the command line is parsed
InitMain ==
  /\ auto_given \in BOOLEAN
  /\ auto_select \in IF auto_given THEN AutoValues ELSE {0}
  /\ has_explain \in BOOLEAN
  /\ mpc = "start" /\ diag_rc = -1 /\ diag_data = NoReport
  /\ groups = <<>> /\ sel_group = 0 /\ selected = NotSelected
  /\ inputs_left = MaxInputs
  /\ custom_lines = 0 /\ n_error_prompts = 0 /\ n_solution_prompts = 0
  /\ exec_launched = FALSE /\ exit_code = -1
  /\ last_input = "none" /\ message = "none" /\ success = "none"
  /\ RunIdle
  /\ ExecIdle
  /\ SolIdle

NextMain ==
  \/ MainDiagMissing \/ MainPlain \/ MainDiagFailed \/ MainNoData
  \/ MainNoProblems \/ MainNoSolutions \/ MainSingleGroup \/ MainMultiGroup
  \/ SelectErrorQuit \/ SelectErrorPick \/ SelectErrorRetry \/ SelectErrorEof
  \/ AutoSelectValid \/ AutoSelectOutOfRange \/ AutoSelectUnset
  \/ SelectSolutionQuit \/ SelectSolutionCustom \/ SelectSolutionPick
  \/ SelectSolutionRetry \/ SelectSolutionEof
  \/ CustomLine \/ CustomFinish \/ CustomCancel
  \/ MainExecute \/ MainNoSelection

SpecMain == InitMain /\ [][NextMain]_vars

-----------------------------------------------------------------------------
(* SpecExtract: extract_solutions(data) followed by                        *)
(* group_solutions_by_error(solutions), as main calls them (lines 659-666) *)

InitExtract ==
  /\ data \in DetailReports \cup GroupReports
  /\ spc = "extract" /\ next_result = 1 /\ solutions = <<>>
  /\ next_sol = 1 /\ grouped = <<>>
  /\ RunIdle
  /\ ExecIdle
  /\ AppIdle

NextExtract == ExtractResult \/ ExtractReturn \/ GroupSolution \/ GroupReturn

SpecExtract == InitExtract /\ [][NextExtract]_vars

-----------------------------------------------------------------------------
(* SpecParse: the end of a call of run_k8sgpt in structured-output mode.    *)
(* The first attempt was not followed by a retry, its drain threads have    *)
(* read the child's stdout to the end, in one chunk or in two, and the      *)
(* result has been built; the JSON report is extracted (lines 239-266).     *)

\* characters of the captured stdout, at most
MaxText == 5

\* what a diagnostic child writes to its stdout: white space included
TextChars == Chars \cup WhiteSpace

\* line 163: the captured stdout
CapturedTexts == {<<>>} \cup Texts(TextChars, MaxText)

\* line 109: the chunks in which read(1024) delivered a text
Chunkings(text) ==
  IF text = <<>> THEN {<<>>}
  ELSE {<<text>>} \cup
       {<<SubSeq(text, 1, k), SubSeq(text, k + 1, Len(text))>> :
          k \in 1 .. (Len(text) - 1)}

RECURSIVE EchoAll(_, _)
\* lines 107-129: what the loop of read_stdout writes to the terminal for a
\* list of chunks, json_started being `started` before the first of them
EchoAll(chunks, started) ==
  IF chunks = <<>> THEN <<>>
  ELSE StdoutEcho(Head(chunks), started)
         \o EchoAll(Tail(chunks), StdoutStarted(Head(chunks), started))

RECURSIVE StartedAfter(_, _)
\* lines 107-125: json_started after a list of chunks
StartedAfter(chunks, started) ==
  IF chunks = <<>> THEN started
  ELSE StartedAfter(Tail(chunks), StdoutStarted(Head(chunks), started))

\* the argument lists of structured-output mode (main, line 635)
ExplainArgLists == {args \in ArgLists : HasExplain(args)}

InitParse ==
  \E args \in ExplainArgLists, rc \in ExitCodes, text \in CapturedTexts :
    \E chunks \in Chunkings(text) :
      /\ ~ShouldRetry(rc, OutputFlagPresent(args))
      /\ k8sgpt_args = args /\ need_json = TRUE /\ installed = TRUE
      /\ rpc = "parse"
      /\ has_output_flag = OutputFlagPresent(args)
      /\ cmds = <<FirstCmd(args, TRUE)>>
      /\ process = 1 /\ chunks_ref = 1 /\ returncode = rc
      /\ rk_result = [cmd |-> FirstCmd(args, TRUE), returncode |-> rc,
                      stdout |-> Flatten(chunks), stderr |-> <<>>]
      /\ parsed_json = "None"
      /\ cstate = [a \in Attempts |-> IF a = 1 THEN "exited" ELSE "none"]
      /\ crc = [a \in Attempts |-> IF a = 1 THEN rc ELSE -1]
      /\ emitted = [p \in Pipes |-> IF p = <<1, "out">> THEN text ELSE <<>>]
      /\ tpc = [t \in Threads |-> IF AttemptOf(t) = 1 THEN "done" ELSE "idle"]
      /\ ttarget = [t \in Threads |-> IF AttemptOf(t) = 1 THEN 1 ELSE 0]
      /\ json_started =
           [t \in Threads |-> IF t = "o1" THEN StartedAfter(chunks, FALSE)
                                           ELSE FALSE]
      /\ bufs = [p \in Pipes |-> IF p = <<1, "out">> THEN chunks ELSE <<>>]
      /\ echoed = [t \in Threads |-> IF t = "o1" THEN EchoAll(chunks, FALSE)
                                                  ELSE <<>>]
      /\ handled = [t \in Threads |-> IF t = "o1" THEN text ELSE <<>>]
      /\ ExecIdle
      /\ AppIdle
      /\ SolIdle

NextParse == RkParse

SpecParse == InitParse /\ [][NextParse]_vars

-----------------------------------------------------------------------------
(* Properties of run_k8sgpt *)

\* s is an initial part of t
IsPrefix(s, t) == Len(s) <= Len(t) /\ SubSeq(t, 1, Len(s)) = s

\* C2: in structured-output mode the first attempt's stdout drain thread has
\* echoed exactly the part of everything it read that precedes the first '{'
\* (all of it when there is none), whatever the chunks were; and until a retry
\* is launched every chunk it read is in the first attempt's capture list, so
\* that the list joins to the cumulative stdout stream of the child.
C2_EchoStopsAtFirstBrace ==
  /\ echoed["o1"] = BeforeBrace(handled["o1"])
  /\ process = 1 /\ need_json =>
       /\ handled["o1"] = emitted[<<1, "out">>]
       /\ Flatten(bufs[<<1, "out">>]) = emitted[<<1, "out">>]

\* C2 witness: the chunk "{" and then the chunk "a" were read: both are
\* captured and neither is echoed
C2_Witness ==
  /\ process = 1
  /\ bufs[<<1, "out">>] = << <<"{">>, <<"a">> >>
  /\ echoed["o1"] = <<>>

\* C3: at most two launches; the second one is the original argument list
\* without the synthesized flag and happens only when structured output was
\* requested, the first launch exited non-zero and the flag was synthesized;
\* when run_k8sgpt has returned, it has happened exactly in that case, and
\* then the result carries the retry's command, exit code and capture lists.
C3_SingleRetry ==
  /\ Len(cmds) <= 2
  /\ Len(cmds) = 2 =>
       /\ need_json
       /\ cstate[1] = "exited" /\ crc[1] # 0
       /\ ~OutputFlagPresent(k8sgpt_args)
       /\ cmds[1] = <<"k8sgpt">> \o k8sgpt_args \o <<"--output", "json">>
       /\ cmds[2] = <<"k8sgpt">> \o k8sgpt_args
  /\ rpc = "returned" =>
       /\ Len(cmds) = 2 <=>
            (need_json /\ crc[1] # 0 /\ ~OutputFlagPresent(k8sgpt_args))
       /\ Len(cmds) = 2 =>
            /\ rk_result.cmd = cmds[2]
            /\ rk_result.returncode = crc[2]
            /\ IsPrefix(rk_result.stdout, Flatten(bufs[<<2, "out">>]))
            /\ IsPrefix(rk_result.stderr, Flatten(bufs[<<2, "err">>]))

\* C3 witness: run_k8sgpt has returned the result of a retry that exited 0
\* and captured something
C3_Witness ==
  /\ rpc = "returned"
  /\ Len(cmds) = 2
  /\ crc[1] = 1 /\ rk_result.returncode = 0
  /\ rk_result.stdout # <<>>

\* C4: the retry's stdout drain thread echoes only what precedes the first
\* '{' of what it read, the retry's stderr drain thread echoes everything,
\* and every chunk they read is captured.
C4_RetrySameDiscipline ==
  /\ echoed["o2"] = BeforeBrace(handled["o2"])
  /\ echoed["e2"] = handled["e2"]
  /\ Len(handled["o2"]) <= Len(Flatten(bufs[<<2, "out">>]))
  /\ Len(handled["e2"]) <= Len(Flatten(bufs[<<2, "err">>]))

\* C5: when the main flow is about to read the capture lists (lines 163-164
\* and 222-223), the two drain threads of the attempt have finished.
C5_ReadAfterDrain ==
  rpc = "collect" =>
    /\ tpc[OutThread(process)] = "done"
    /\ tpc[ErrThread(process)] = "done"

\* the state of the child that `process` names
CurrentChild == IF process = 0 THEN "none" ELSE cstate[process]

\* C6: the wait for the child's exit is under a timeout: while the main flow
\* waits for a child that is still running, it can proceed.
C6_WaitHasTimeout ==
  (rpc = "wait" /\ CurrentChild = "running") => ENABLED RkMain

\* C7: in structured-output mode, once the child the main flow is on has
\* exited, run_k8sgpt returns or launches its retry (whose exit it then waits
\* for), whether or not the drain threads ever finish.
C7_ReturnsOnceChildExited ==
  (InCall /\ need_json /\ CurrentChild = "exited")
    ~> (rpc = "returned" \/ CurrentChild = "running")

\* C7 witness: run_k8sgpt has returned while a drain thread is still blocked
\* in read() on a pipe that nobody closed
C7_Witness ==
  /\ rpc = "returned"
  /\ need_json
  /\ \E t \in Threads : tpc[t] = "read" /\ cstate[ttarget[t]] = "exited"

\* C22: in a retry only the retry's own two drain threads read from the
\* retry child's pipes and append to the retry's capture lists: a drain
\* thread of the first attempt never has a read on a pipe of the retry child
\* and never appends to the retry's lists, so that these lists hold the
\* chunks the retry's threads read, and the returned texts are made of what
\* the retry child wrote, in arrival order.
C22_RetryBuffersOnlyRetryChunks ==
  /\ ttarget["o1"] # 2
  /\ ttarget["e1"] # 2
  /\ Flatten(bufs[<<2, "out">>]) = handled["o2"]
  /\ Flatten(bufs[<<2, "err">>]) = handled["e2"]
  /\ (rpc = "returned" /\ Len(cmds) = 2) =>
       /\ IsPrefix(rk_result.stdout, emitted[<<2, "out">>])
       /\ IsPrefix(rk_result.stderr, emitted[<<2, "err">>])

-----------------------------------------------------------------------------
(* Properties of execute_with_kubectl_ai *)

\* the step in which the monitor calls process.terminate() for idleness
IdleRequestStep == term_reason = "none" /\ term_reason' = "idle"

\* the monitor has asked the executor to end, by terminate() or by kill()
EndRequested == term_reason # "none" \/ killed

C9_TrueIffExitZero ==
  epc = "done" =>
    /\ ret \in {"True", "False"}
    /\ ret = "True" <=> (xstate = "exited" /\ xrc = 0)
    /\ killed => ret = "False"
    /\ (term_reason # "none" /\ xrc < 0) => ret = "False"

C9_Witness ==
  /\ epc = "done"
  /\ killed
  /\ term_reason = "idle"
  /\ ret = "False"

\* lines 593-601: the time the executor is given between terminate() and kill()
GracePeriod == JoinTimeout + JoinTimeout + WaitTimeout

\* C10: if the executor has written at least once and then stays silent
\* without exiting, execute_with_kubectl_ai has ended it and returned within
\* the idle threshold plus the grace period after the last write (plus the one
\* second of the clock's resolution): the executor is not still running later.
C10_ReturnsWithinIdlePlusGrace ==
  (last_write >= 0 /\ xstate = "running") =>
    now - last_write <= no_output_timeout + GracePeriod + 1

\* the reader threads have taken every complete line the executor wrote
LinesTaken == \A s \in Streams : xpending[s] = 0 /\ xtpc[s] # "stamp"

\* C23: every byte received from the executor on either stream is an output
\* event, also when no newline follows it: once the reader threads have
\* caught up with what the executor wrote a second or more ago, the output
\* flag is set and the last-output time is not older than the executor's
\* last write; and
\* termination for idleness is not requested while the executor's last
\* write is no older than the idle threshold.
C23_EveryByteIsOutput ==
  /\ []((InExec /\ last_write >= 0 /\ now > last_write /\ LinesTaken) =>
          (has_output /\ last_output_time >= last_write))
  /\ [][(IdleRequestStep /\ LinesTaken) =>
          now - last_write > no_output_timeout]_vars

\* the step in which process.kill() is called
KillStep == ~killed /\ killed'

\* C24: the executor is killed only after a termination request, when the
\* wait that follows the request has expired with the executor still
\* running; an executor that exited on its own, or after the request and
\* before the wait expired, is never killed.
C24_KillOnlyAfterGrace ==
  /\ [][KillStep =>
          /\ term_reason # "none"
          /\ xstate = "running"
          /\ now - wait_start >= WaitTimeout]_vars
  /\ [](killed => (term_reason # "none" /\ xrc = -SIGKILL))
  /\ []((xstate = "exited" /\ xrc # -SIGKILL) => ~killed)

\* C24 witness: the executor ignored the request made for idleness and has
\* just been killed
C24_Witness ==
  /\ epc = "wait_killed"
  /\ term_reason = "idle"
  /\ killed
  /\ now - wait_start >= WaitTimeout

\* the time after which every call has returned: the ceiling, one second of
\* the clock's resolution, and the grace period
ReturnDeadline == max_wait_time + 1 + GracePeriod

\* C25: every call of execute_with_kubectl_ai returns, whatever the executor
\* does and whether or not its pipes are ever closed: an executor still
\* running and not asked to terminate is not older than the ceiling (plus
\* the clock's resolution), each of the waits that follow the request ends
\* at its timeout, and the call is not in progress after the deadline.
C25_CallReturns ==
  /\ (InExec /\ xstate = "running" /\ term_reason = "none") =>
       now - start_time <= max_wait_time + 1
  /\ epc \in {"join_out", "join_err"} => now - wait_start <= JoinTimeout
  /\ epc = "wait" => now - wait_start <= WaitTimeout
  /\ InExec => now - start_time <= ReturnDeadline

\* C25 witness: the call has returned after the ceiling, from an executor
\* that went on writing, ignored the request and was killed, with a reader
\* thread still blocked on a pipe that stayed open
C25_Witness ==
  /\ epc = "done"
  /\ term_reason = "ceiling"
  /\ killed
  /\ last_write >= max_wait_time
  /\ \E s \in Streams : xtpc[s] = "read"

-----------------------------------------------------------------------------
(* Properties of main *)

\* C1: when the entries of the relevant group are displayed and the
\* auto-select index is outside 1..M, M the number of entries of that group
\* (0, negative and greater than M alike), the solution prompt is never
\* issued, the executor is never launched, and the run ends with a non-zero
\* exit status.
C1_InvalidAutoSelectExitsNonZero ==
  (auto_given /\ sel_group # 0 /\ ~InRange(auto_select, GroupSize)) =>
    /\ n_solution_prompts = 0
    /\ ~exec_launched
    /\ mpc = "exited" => exit_code # 0

-----------------------------------------------------------------------------
(* Properties of extract_solutions and group_solutions_by_error *)

\* the loop of line 280 has taken the only Finding of a report, and the
\* Finding has an error and a details text
OneFindingExtracted ==
  /\ spc # "off"
  /\ Len(data) = 1
  /\ next_result > 1
  /\ HasErrorAndDetails(data[1])

\* C11: for a Finding with non-empty error and details whose details text
\* holds no "Solution:" marker, extract_solutions yields exactly one entry,
\* and its step text is the details text with leading and trailing white
\* space trimmed.
C11_NoMarkerOneTrimmedEntry ==
  (OneFindingExtracted /\ ~HasMarker(data[1].details)) =>
    /\ Len(solutions) = 1
    /\ solutions[1].solution = Strip(data[1].details)

\* C12: when the details text holds the marker, the steps are those of
\* everything after the first occurrence of the marker up to the end of the
\* details text, text after a later occurrence of the marker included.
C12_StepsFromAllAfterFirstMarker ==
  (OneFindingExtracted /\ HasMarker(data[1].details)) =>
    LET details == data[1].details
        first == CHOOSE k \in 1..Len(details) :
                   details[k] = Marker /\ \A j \in 1..(k - 1) : details[j] # Marker
        rest == Strip(SubSeq(details, first + 1, Len(details)))
    IN [i \in 1..Len(solutions) |-> solutions[i].solution]
         = StepsOfLines(SplitLines(rest), <<>>, <<>>)

\* C13: when both functions have returned, the (kind, name, error) triples of
\* the groups are exactly the triples of the Findings that have an error and
\* a details text: none is omitted and none is the triple of two groups.
C13_GroupsReproduceTriples ==
  spc = "done" =>
    LET triple(e) == <<e.kind, e.name, e.error>>
        found == { <<data[i].kind, data[i].name, ErrorText(data[i])>> :
                     i \in {j \in 1..Len(data) : HasErrorAndDetails(data[j])} }
    IN /\ { triple(grouped[g].entries[1]) : g \in 1..Len(grouped) } = found
       /\ \A g, h \in 1..Len(grouped) :
            triple(grouped[g].entries[1]) = triple(grouped[h].entries[1]) => g = h

\* C14: two entries are in the same group if and only if their (kind, name,
\* error) triples are equal; groups are in the order in which their first
\* entry was seen, and the entries of a group in the order in which they
\* were seen.
C14_GroupedByExactTriple ==
  LET triple(e) == <<e.kind, e.name, e.error>>
      places == { <<g, k>> : g \in 1..Len(grouped), k \in 1..MaxFindings + MaxPieces }
      at == { p \in places : p[2] <= Len(grouped[p[1]].entries) }
      entry(p) == grouped[p[1]].entries[p[2]]
  IN /\ \A p, q \in at : (p[1] = q[1]) <=> (triple(entry(p)) = triple(entry(q)))
     /\ \A p, q \in at : (p[1] = q[1] /\ p[2] < q[2]) => entry(p).id < entry(q).id
     /\ \A g, h \in 1..Len(grouped) :
          g < h => grouped[g].entries[1].id < grouped[h].entries[1].id

\* C15: for a Finding whose details hold the marker, there is one entry per
\* step; the number of steps is the number of lines after the marker that
\* match "digits, period, white space, text", plus one if the first line
\* that is not blank is no such line; every other line that is not blank is
\* joined by a space onto the step in progress, and blank lines neither
\* start nor end a step.
C15_OneEntryPerStep ==
  (OneFindingExtracted /\ HasMarker(data[1].details)) =>
    LET details == data[1].details
        first == CHOOSE k \in 1..Len(details) :
                   details[k] = Marker /\ \A j \in 1..(k - 1) : details[j] # Marker
        lines == SplitLines(Strip(SubSeq(details, first + 1, Len(details))))
        text == { i \in 1..Len(lines) : Strip(lines[i]) # <<>> }
        numbered == { i \in text : StepPattern(Strip(lines[i])) }
        starts == numbered \cup
                    { i \in text : \A j \in text : i <= j }
        \* the step that starts at line i: line i and the lines that follow
        \* it up to the next start, without the blank ones, joined by spaces
        RECURSIVE joined(_, _)
        joined(i, acc) ==
          IF i > Len(lines) \/ (i \in starts /\ acc # <<>>) THEN acc
          ELSE joined(i + 1,
                      IF i \in text
                      THEN (IF acc = <<>> THEN Strip(lines[i])
                            ELSE acc \o <<" ">> \o Strip(lines[i]))
                      ELSE acc)
    IN /\ Len(solutions) = Cardinality(starts)
       /\ \A i \in starts :
            solutions[Cardinality({j \in starts : j <= i})].solution
              = joined(i, <<>>)

-----------------------------------------------------------------------------
(* Properties of the selection flow and of the exit status *)

\* C16: in select_error and select_solution a number out of range or a token
\* that is no number and no command does not end the selection, the prompt is
\* issued again; the selection ends only on a number in range, on 'q', on 'c'
\* (solution prompt only) or on an interrupt; an interrupt ends it with no
\* selection and without an error.
C16_SelectionEndsOnlyOnChoice ==
  [][/\ (mpc \in {"select_error", "select_solution"}
           /\ last_input' \in {"out_of_range", "not_a_number"})
        => mpc' = mpc
     /\ (mpc = "select_error" /\ mpc' # mpc)
        => last_input' \in {"number", "q", "interrupt"}
     /\ (mpc = "select_solution" /\ mpc' # mpc)
        => last_input' \in {"number", "q", "c", "interrupt"}
     /\ (mpc \in {"select_error", "select_solution"}
           /\ last_input' = "interrupt")
        => (selected' = NotSelected /\ exit_code' \in {-1, 0})]_vars

\* C17: after a cancellation at any level (quit or interrupt at the group
\* prompt or at the solution prompt, interrupt while a custom entry is
\* written) nothing is selected, the executor is never launched, and the run
\* ends with exit code 0.
C17_CancelExitsZero ==
  last_input \in {"q", "interrupt"} =>
    /\ selected = NotSelected
    /\ ~exec_launched
    /\ mpc \in {"execute", "exited"}
    /\ mpc = "execute" => ENABLED MainNoSelection
    /\ mpc = "exited" =>
         /\ exit_code = 0
         /\ message \in {"no_error_selected", "no_solution_selected"}

C17_Witness ==
  /\ mpc = "exited"
  /\ last_input = "interrupt"
  /\ custom_lines > 0
  /\ exit_code = 0

\* C18: with --explain, when the diagnostic tool exits zero but no JSON report
\* is extracted, the run reports the captured text as malformed and exits
\* non-zero without decomposition, selection or execution; and a captured
\* text from which a JSON object was parsed is never reported as malformed.
C18_MalformedIffNotParsed ==
  /\ (has_explain /\ diag_rc = 0 /\ diag_data.json = "None") =>
       /\ message = "malformed"
       /\ mpc = "exited" /\ exit_code # 0
       /\ sel_group = 0 /\ n_error_prompts = 0 /\ n_solution_prompts = 0
       /\ ~exec_launched
  /\ message = "malformed" => diag_data.json = "None"

\* C19: with --explain, when the diagnostic tool exits zero and the parsed
\* report has status OK or a problem count of 0, the run reports "no
\* problems", ends with exit code 0, and neither the selection flow nor the
\* executor is entered.
C19_NoProblemsExitsZero ==
  (has_explain /\ diag_rc = 0 /\ diag_data.json = "Report"
     /\ (diag_data.status = "OK" \/ diag_data.problems = 0)) =>
    /\ message = "no_problems"
    /\ mpc = "exited" /\ exit_code = 0
    /\ sel_group = 0 /\ n_error_prompts = 0 /\ n_solution_prompts = 0
    /\ ~exec_launched

C19_Witness ==
  /\ message = "no_problems"
  /\ diag_data.status = "ProblemDetected"
  /\ diag_data.problems = 0
  /\ exit_code = 0

\* C20: the exit status of a run is the diagnostic tool's exit code when no
\* solution is executed because --explain is absent or the tool failed; 0 if
\* the executor succeeded and 1 if it failed when a solution is executed; 1
\* when no report is extracted or the automatic selection is invalid.
C20_ExitStatus ==
  mpc = "exited" =>
    /\ (~has_explain /\ diag_rc # -1) => exit_code = diag_rc
    /\ (has_explain /\ diag_rc \notin {-1, 0}) => exit_code = diag_rc
    /\ exec_launched => exit_code = (IF success = "True" THEN 0 ELSE 1)
    /\ (has_explain /\ diag_rc = 0 /\ NotData(diag_data)) => exit_code = 1
    /\ (auto_given /\ sel_group # 0 /\ ~InRange(auto_select, GroupSize))
         => exit_code = 1

\* C27: whatever the operator types, the end of input included, the
\* selection flow (select_error, select_solution, prompt_custom_solution)
\* ends with the entry at the chosen position of the chosen group, with a
\* custom entry for that group, or with no selection; it never ends by an
\* error raised to main, which would end the run at a prompt with a
\* non-zero status.
C27_SelectionNeverRaises ==
  /\ [](mpc = "execute" =>
          \/ selected = NotSelected
          \/ selected = Custom /\ sel_group # 0 /\ custom_lines > 0
          \/ \E n \in 1 .. GroupSize : selected = Entry(n))
  /\ [][(mpc \in {"select_error", "select_solution", "custom"}
           /\ mpc' = "exited")
        => (exit_code' = 0 /\ selected' = NotSelected)]_vars

-----------------------------------------------------------------------------
(* Properties of the extraction of the JSON report *)

\* the captured stdout with leading and trailing white space trimmed
TrimmedText == Strip(rk_result.stdout)

\* C21: the extraction of the JSON report from the captured text ends (it
\* does not raise) and yields a report exactly when (a) the trimmed text
\* begins with '{' and the whole of it parses, or (b) it does not begin with
\* '{' and the first line whose trimmed content begins with '{', together
\* with every line after it, parses; in every other case it yields nothing.
\* (LineAt(p): position p of the trimmed text starts a line whose trimmed
\* content begins with '{'.)
C21_ReportIffWholeOrTailParses ==
  LET t == TrimmedText
      LineAt(p) == /\ p = 1 \/ t[p - 1] = "\n"
                   /\ \E q \in p .. Len(t) :
                        /\ t[q] = "{"
                        /\ \A j \in p .. (q - 1) : t[j] = " "
      starts == {p \in 1 .. Len(t) : LineAt(p)}
      first == CHOOSE i \in starts : \A j \in starts : i <= j
  IN /\ rpc \in {"parse", "returned"}
     /\ (rpc = "returned" /\ need_json /\ rk_result.returncode = 0) =>
          (parsed_json # "None" <=>
             \/ StartsWithBrace(t) /\ JsonParses(t)
             \/ /\ ~StartsWithBrace(t)
                /\ starts # {}
                /\ JsonParses(SubSeq(t, first, Len(t))))

\* C21 witness: a report was extracted from a text that begins with a
\* preamble line
C21_Witness ==
  /\ rpc = "returned"
  /\ parsed_json # "None"
  /\ ~StartsWithBrace(TrimmedText)

\* lines 242-259: where the document handed to json.loads begins in the
\* captured stdout: at the first character that is no white space when that
\* is a '{', and else at the '{' of the first line whose trimmed content
\* begins with '{' (0: there is no such place)
DocumentStart(stdout) ==
  LET lead == Len(stdout) - Len(LStrip(stdout))
      t == Strip(stdout)
      LineAt(p) == /\ p = 1 \/ t[p - 1] = "\n"
                   /\ \E q \in p .. Len(t) :
                        /\ t[q] = "{"
                        /\ \A j \in p .. (q - 1) : t[j] = " "
      starts == {p \in 1 .. Len(t) : LineAt(p)}
      first == CHOOSE i \in starts : \A j \in starts : i <= j
      brace == CHOOSE q \in first .. Len(t) :
                 t[q] = "{" /\ \A j \in first .. (q - 1) : t[j] # "{"
  IN IF starts = {} THEN 0 ELSE lead + brace

\* C26: whenever run_k8sgpt recovers a JSON report from the stdout captured
\* on its first attempt, what read_stdout echoed is exactly the part of the
\* captured text that precedes the recovered document: nothing of the
\* preamble is withheld and nothing of the document is shown.
C26_EchoIsThePreamble ==
  (rpc = "returned" /\ Len(cmds) = 1 /\ parsed_json # "None") =>
    echoed["o1"] = SubSeq(rk_result.stdout, 1,
                          DocumentStart(rk_result.stdout) - 1)

====
